---- MODULE Spec2Model ----
(***************************************************************************)
(* A model of the path simulator and the option-pricing engine of          *)
(* src/src/math_models.py (stock_path, option_path, black_scholes_price)   *)
(* and of the way src/main.py drives them.                                 *)
(*                                                                         *)
(* Arithmetic.  Python floats are modelled on a discretised domain:        *)
(*   - a parameter (T, mu, sigma, r, dt, d1, d2) is a fixed-point number,  *)
(*     an integer count of 1/Scale, extended by the IEEE values NaN and    *)
(*     +-inf and a sign for zero (record Fx: k, v, s);                     *)
(*   - a time of a grid is an exact fraction <<num, den>>;                 *)
(*   - an underlying price is mantissa * e^(exponent/Scale) (record        *)
(*     Price: k, m, e), so that multiplying by np.exp(x) is exact;         *)
(*   - an option price is an integer count of 1/(ExpScale*CdfScale).       *)
(* Rounding, overflow and underflow of IEEE doubles are not modelled.      *)
(***************************************************************************)
EXTENDS Integers, Sequences, FiniteSets, TLC

VARIABLES
    last,           \* the call a client has just made, with its outcome
    ref,            \* an earlier call the client has kept
    math_models,    \* the namespace of the module math_models: its attributes
    example_stock,  \* main.py: the simulated underlying
    option_dict,    \* main.py: the option records, by key
    option_count,   \* main.py: the counter of the pricing loop
    df_model,       \* main.py: the columns of the dataset
    calls,          \* main.py: the calls of stock_path and option_path made so far
    pc              \* main.py: the step the script is at, and its loop index

\* the state of the script main.py
script == <<example_stock, option_dict, option_count, df_model, calls, pc>>

vars == <<last, ref, math_models, script>>

(***************************************************************************)
(* Bounds of the model.                                                    *)
(***************************************************************************)
\* the largest n_steps a simulation is run with
MaxSteps == 3
\* the longest underlying path handed to option_path directly
MaxLen == 2
\* the most option records the pricing loop stores in one run
MaxPriced == 2

\* resolution of the fixed-point numbers: two decimals
Scale == 10 * 10
\* resolution of a numeric value of np.exp: three decimals
ExpScale == 10 * 10 * 10
\* resolution of norm.cdf: three decimals
CdfScale == 10 * 10 * 10

(***************************************************************************)
(* IEEE-extended fixed-point numbers.                                      *)
(***************************************************************************)
Sign(v) == IF v < 0 THEN -1 ELSE 1

Abs(v) == IF v < 0 THEN -v ELSE v

Fin(v) == [k |-> "fin", v |-> v, s |-> Sign(v)]

NegZero == [k |-> "fin", v |-> 0, s |-> -1]

NaN == [k |-> "nan", v |-> 0, s |-> 1]

Inf(s) == [k |-> "inf", v |-> 0, s |-> s]

IsZero(a) == a.k = "fin" /\ a.v = 0

\* a + b
fx_add(a, b) ==
    IF a.k = "nan" \/ b.k = "nan" THEN NaN
    ELSE IF a.k = "inf" /\ b.k = "inf" THEN (IF a.s = b.s THEN a ELSE NaN)
    ELSE IF a.k = "inf" THEN a
    ELSE IF b.k = "inf" THEN b
    ELSE IF a.v + b.v = 0 THEN (IF a.s = -1 /\ b.s = -1 THEN NegZero ELSE Fin(0))
    ELSE Fin(a.v + b.v)

\* -a
fx_neg(a) ==
    IF a.k = "nan" THEN NaN ELSE [k |-> a.k, v |-> -a.v, s |-> -a.s]

\* a - b
fx_sub(a, b) == fx_add(a, fx_neg(b))

\* a * b
fx_mul(a, b) ==
    IF a.k = "nan" \/ b.k = "nan" THEN NaN
    ELSE IF a.k = "inf" \/ b.k = "inf"
         THEN (IF IsZero(a) \/ IsZero(b) THEN NaN ELSE Inf(a.s * b.s))
    ELSE LET p == (a.v * b.v) \div Scale
         IN  [k |-> "fin", v |-> p, s |-> IF p = 0 THEN a.s * b.s ELSE Sign(p)]

\* a / b on numpy float64 scalars: a division by zero gives inf or nan
fx_div(a, b) ==
    IF a.k = "nan" \/ b.k = "nan" THEN NaN
    ELSE IF a.k = "inf" THEN (IF b.k = "inf" THEN NaN ELSE Inf(a.s * b.s))
    ELSE IF b.k = "inf" THEN [k |-> "fin", v |-> 0, s |-> a.s * b.s]
    ELSE IF b.v = 0 THEN (IF a.v = 0 THEN NaN ELSE Inf(a.s * b.s))
    ELSE LET q == (a.v * Scale) \div b.v
         IN  [k |-> "fin", v |-> q, s |-> IF q = 0 THEN a.s * b.s ELSE Sign(q)]

\* np.sqrt(x): nan below zero
sqrt(x) ==
    IF x.k = "nan" THEN NaN
    ELSE IF x.k = "inf" THEN (IF x.s = 1 THEN x ELSE NaN)
    ELSE IF x.v < 0 THEN NaN
    ELSE IF x.v = 0 THEN x
    ELSE Fin(CHOOSE q \in 0..(x.v + Scale) :
                 q * q <= x.v * Scale /\ (q + 1) * (q + 1) > x.v * Scale)

(***************************************************************************)
(* Underlying prices: m * e^(e/Scale).                                     *)
(***************************************************************************)
Price(m, e) == [k |-> "fin", m |-> m, e |-> e]

NaNPrice == [k |-> "nan", m |-> 0, e |-> 0]

InfPrice == [k |-> "inf", m |-> 1, e |-> 0]

\* np.exp(x) as a factor of a price
exp(x) ==
    IF x.k = "nan" THEN NaNPrice
    ELSE IF x.k = "inf" THEN (IF x.s = 1 THEN InfPrice ELSE Price(0, 0))
    ELSE Price(1, x.v)

\* p * q for two prices
price_mul(p, q) ==
    IF p.k = "nan" \/ q.k = "nan" THEN NaNPrice
    ELSE IF p.k = "inf" \/ q.k = "inf"
         THEN (IF (p.k = "fin" /\ p.m = 0) \/ (q.k = "fin" /\ q.m = 0)
               THEN NaNPrice
               ELSE [k |-> "inf", m |-> Sign(p.m) * Sign(q.m), e |-> 0])
    ELSE IF p.m * q.m = 0 THEN Price(0, 0)
    ELSE Price(p.m * q.m, p.e + q.e)

\* p > 0 as Python evaluates it (False for nan)
IsPositive(p) == p.k # "nan" /\ p.m > 0

\* p * f for a price and a fixed-point factor f (1/Scale = e^(-4.61))
price_scale(p, f) ==
    IF p.k = "nan" \/ f.k = "nan" THEN NaNPrice
    ELSE IF p.k = "inf" \/ f.k = "inf" THEN NaNPrice
    ELSE IF p.m * f.v = 0 THEN Price(0, 0)
    ELSE Price(p.m * f.v, p.e - 461)

(***************************************************************************)
(* Numeric values of np.log, np.exp and norm.cdf.                          *)
(***************************************************************************)
\* Scale * ln(n) for n = 1..12
LN_TABLE == <<0, 69, 110, 139, 161, 179, 195, 208, 220, 230, 240, 248>>

Ln(n) == LN_TABLE[n]

\* ExpScale * e^(j/10) for j = 0..9
EXP_TENTHS == <<1000, 1105, 1221, 1350, 1492, 1649, 1822, 2014, 2226, 2460>>

\* ExpScale * e^(h/100) for h = 0..9
EXP_HUNDREDTHS == <<1000, 1010, 1020, 1030, 1041, 1051, 1062, 1073, 1083, 1094>>

\* ExpScale * e^k for an integer k >= 0
RECURSIVE exp_whole(_)
exp_whole(k) ==
    IF k = 0 THEN ExpScale ELSE (exp_whole(k - 1) * 2718) \div ExpScale

\* ExpScale * e^(x/Scale) for x >= 0
exp_upper(x) ==
    LET k == x \div Scale
        j == (x % Scale) \div 10
        h == x % 10
    IN  (((exp_whole(k) * EXP_TENTHS[j + 1]) \div ExpScale) * EXP_HUNDREDTHS[h + 1])
            \div ExpScale

\* ExpScale * e^(x/Scale)
exp_value(x) ==
    IF x >= 0 THEN exp_upper(x) ELSE (ExpScale * ExpScale) \div exp_upper(-x)

\* ExpScale * p for a finite price p
price_value(p) == p.m * exp_value(p.e)

\* CdfScale * Phi(j/10) for j = 0..30
CDF_TABLE ==
    <<500, 540, 579, 618, 655, 691, 726, 758, 788, 816,
      841, 864, 885, 903, 919, 933, 945, 955, 964, 971,
      977, 982, 986, 989, 992, 994, 995, 997, 997, 998, 999>>

\* CdfScale * Phi(x/Scale) for x >= 0, interpolated between the tenths
cdf_upper(x) ==
    IF x >= 300 THEN CDF_TABLE[31]
    ELSE LET j == x \div 10
         IN  CDF_TABLE[j + 1] + ((CDF_TABLE[j + 2] - CDF_TABLE[j + 1]) * (x % 10)) \div 10

\* norm.cdf(d), in 1/CdfScale
cdf(d) ==
    IF d.k = "nan" THEN NaN
    ELSE IF d.k = "inf" THEN (IF d.s = 1 THEN Fin(CdfScale) ELSE Fin(0))
    ELSE IF d.v >= 0 THEN Fin(cdf_upper(d.v))
    ELSE Fin(CdfScale - cdf_upper(-d.v))

\* np.log(S0 / K) for a price S0 that is a numpy float64, as the entries of
\* S_grid are: S0 / 0 is inf or nan, where a Python float would raise
log_ratio(S0, K) ==
    IF S0.k = "nan" THEN NaN
    ELSE IF S0.m = 0 THEN (IF K = 0 THEN NaN ELSE Inf(-1))
    ELSE IF K = 0 THEN (IF S0.m > 0 THEN Inf(1) ELSE NaN)
    ELSE IF Sign(S0.m) # Sign(K) THEN NaN
    ELSE IF S0.k = "inf" THEN Inf(1)
    ELSE Fin(Ln(Abs(S0.m)) - Ln(Abs(K)) + S0.e)

\* p * c for a price p and a probability c, in 1/(ExpScale*CdfScale)
weighted(p, c) ==
    IF p.k = "nan" \/ c.k = "nan" THEN NaN
    ELSE IF p.k = "inf" THEN (IF c.v = 0 THEN NaN ELSE Inf(Sign(p.m)))
    ELSE Fin(price_value(p) * c.v)

(***************************************************************************)
(* Time grids: exact fractions.                                            *)
(***************************************************************************)
Frac(n, d) == <<n, d>>

FracEq(a, b) == a[1] * b[2] = b[1] * a[2]

FracLess(a, b) == a[1] * b[2] < b[1] * a[2]

FracSub(a, b) == <<a[1] * b[2] - b[1] * a[2], a[2] * b[2]>>

\* np.linspace(start, stop, num) for num >= 0: num points, the last set to stop
linspace(start, stop, num) ==
    [i \in 1..num |->
        IF i = num /\ num > 1 THEN Frac(stop, 1)
        ELSE IF num = 1 THEN Frac(start, 1)
        ELSE Frac(start * (num - 1) + (i - 1) * (stop - start), num - 1)]

(***************************************************************************)
(* The random source.                                                      *)
(***************************************************************************)
\* random_state=None
None == -1

\* period of the generator's state
RngModulus == 16

\* the operating system's entropy pool, read when no seed is given
Entropy == {0, 5}

\* a generator that is never seeded
default_rng_unseeded(seed, os_entropy) == os_entropy % RngModulus

\* np.random.default_rng(seed): a fresh generator for this call
default_rng(seed, os_entropy) ==
    IF seed = None THEN os_entropy % RngModulus ELSE seed % RngModulus

\* the generator's state after n draws
RECURSIVE rng_state(_, _)
rng_state(rng, n) ==
    IF n = 0 THEN rng ELSE (5 * rng_state(rng, n - 1) + 3) % RngModulus

\* the i-th standard normal variate of a generator, in whole units -2..2
standard_normal(rng, i) == Fin(((rng_state(rng, i) % 5) - 2) * Scale)

\* rng.normal(loc, scale, size): size variates loc + scale * z
normal(rng, loc, scale, size) ==
    [i \in 1..size |-> fx_add(loc, fx_mul(scale, standard_normal(rng, i)))]

(***************************************************************************)
(* Results of a call.                                                      *)
(***************************************************************************)
DataFrame(time, price) == [time |-> time, price |-> price]

NoFrame == DataFrame(<<>>, <<>>)

\* the call returned value; draws variates were drawn, computed points priced
Returned(value, draws, computed) ==
    [status |-> "returned", error |-> "", value |-> value,
     draws |-> draws, computed |-> computed]

\* the call raised error
Raised(error, draws, computed) ==
    [status |-> "raised", error |-> error, value |-> NoFrame,
     draws |-> draws, computed |-> computed]

(***************************************************************************)
(* stock_path                                                              *)
(***************************************************************************)
\* an additive Euler step: X[i] + X[i] * (mu * dt + sigma * dW[i])
gbm_step_euler(X, mu, sigma, dt, dW) ==
    price_scale(X, fx_add(Fin(Scale), fx_add(fx_mul(Fin(mu), dt), fx_mul(Fin(sigma), dW))))

\* X[i] * np.exp((mu - 0.5 * sigma**2) * dt + sigma * dW[i])
gbm_step(X, mu, sigma, dt, dW) ==
    price_mul(X,
        exp(fx_add(
            fx_mul(fx_sub(Fin(mu), fx_mul(Fin(Scale \div 2), fx_mul(Fin(sigma), Fin(sigma)))),
                   dt),
            fx_mul(Fin(sigma), dW))))

\* X_grid after the loop: X_grid[0] = x0, X_grid[i + 1] from X_grid[i]
RECURSIVE gbm_path(_, _, _, _, _, _)
gbm_path(x0, mu, sigma, dt, dW, n) ==
    IF n = 0 THEN <<Price(x0, 0)>>
    ELSE LET X_grid == gbm_path(x0, mu, sigma, dt, dW, n - 1)
         IN  Append(X_grid, gbm_step(X_grid[n], mu, sigma, dt, dW[n]))

\* a simulator that checks its parameters before it computes
stock_path_error_checked(T, n_steps, x0, sigma) ==
    IF n_steps < 1 \/ T <= 0 \/ x0 <= 0 \/ sigma <= 0 THEN "InvalidParameter" ELSE ""

\* the exception the statements before the loop raise, "" when none:
\* T / n_steps divides by zero; np.linspace and rng.normal refuse a negative size
stock_path_error(T, n_steps, x0, sigma) ==
    IF n_steps = 0 THEN "ZeroDivisionError"
    ELSE IF n_steps < 0 THEN "ValueError"
    ELSE ""

\* a grid of n_steps points
time_grid_short(T, n_steps) == linspace(0, T, n_steps)

\* np.linspace(0.0, T, n_steps + 1)
time_grid(T, n_steps) == linspace(0, T, n_steps + 1)

stock_path(T, n_steps, x0, mu, sigma, random_state, os_entropy) ==
    LET rng   == default_rng(random_state, os_entropy)
        error == stock_path_error(T, n_steps, x0, sigma)
    IN  IF error # "" THEN Raised(error, 0, 0)
        ELSE LET dt     == fx_div(Fin(T), Fin(n_steps * Scale))
                 t_grid == time_grid(T, n_steps)
                 dW     == normal(rng, Fin(0), sqrt(dt), n_steps)
                 X_grid == gbm_path(x0, mu, sigma, dt, dW, n_steps)
             IN  Returned(DataFrame(t_grid, X_grid), n_steps, 0)

(***************************************************************************)
(* black_scholes_price and option_path                                     *)
(***************************************************************************)
\* the risk-free rate used by default: 0.02
RISK_FREE == 2

\* an argument a call leaves out
Omitted == None

\* the default of r, "r: float = RISK_FREE": Python evaluates the expression
\* once, when the def statement is executed, and keeps the value with the
\* function; at_def is what RISK_FREE held then, at_call what it holds when the
\* function is called
default_r(at_def, at_call) == at_def

\* the r a call prices with: the argument, or the default when it is left out
bound_r(r) == IF r = Omitted THEN default_r(RISK_FREE, math_models.RISK_FREE) ELSE r

NoneValue == [k |-> "none", v |-> 0, s |-> 1]

\* (np.log(S0 / K) + (r + 0.5 * sigma ** 2) * T) / (sigma * np.sqrt(T))
d1_of(S0, K, T, sigma, r) ==
    fx_div(
        fx_add(log_ratio(S0, K),
               fx_mul(fx_add(Fin(r), fx_mul(Fin(Scale \div 2), fx_mul(Fin(sigma), Fin(sigma)))),
                      Fin(T))),
        fx_mul(Fin(sigma), sqrt(Fin(T))))

\* d1 - sigma * np.sqrt(T)
d2_of(d1, T, sigma) == fx_sub(d1, fx_mul(Fin(sigma), sqrt(Fin(T))))

\* K * np.exp(-r * T)
discounted(K, T, r) == price_mul(Price(K, 0), exp(fx_mul(fx_neg(Fin(r)), Fin(T))))

\* the "call" branch
call_price(S0, K, T, sigma, r) ==
    LET d1 == d1_of(S0, K, T, sigma, r)
        d2 == d2_of(d1, T, sigma)
    IN  fx_sub(weighted(S0, cdf(d1)), weighted(discounted(K, T, r), cdf(d2)))

\* a put branch with d1 and d2 exchanged
put_price_swapped(S0, K, T, sigma, r) ==
    LET d1 == d1_of(S0, K, T, sigma, r)
        d2 == d2_of(d1, T, sigma)
    IN  fx_sub(weighted(discounted(K, T, r), cdf(fx_neg(d1))),
               weighted(S0, cdf(fx_neg(d2))))

\* the "put" branch
put_price(S0, K, T, sigma, r) ==
    LET d1 == d1_of(S0, K, T, sigma, r)
        d2 == d2_of(d1, T, sigma)
    IN  fx_sub(weighted(discounted(K, T, r), cdf(fx_neg(d2))),
               weighted(S0, cdf(fx_neg(d1))))

\* a pricer whose second branch takes every other option class
black_scholes_price_else(S0, K, T, sigma, option_type, r) ==
    IF option_type = "call" THEN call_price(S0, K, T, sigma, r)
    ELSE put_price(S0, K, T, sigma, r)

black_scholes_price(S0, K, T, sigma, option_type, r) ==
    IF option_type = "call" THEN call_price(S0, K, T, sigma, r)
    ELSE IF option_type = "put" THEN put_price(S0, K, T, sigma, r)
    ELSE NoneValue

\* np.zeros(n)
zeros(n) == [i \in 1..n |-> Fin(0)]

\* a loop that stops one point early
grid_length_short(t_grid) == Len(t_grid) - 1

\* n = len(t_grid)
grid_length(t_grid) == Len(t_grid)

\* the time a fraction of the grid stands for, in 1/Scale
time_value(t) == t[1] \div t[2]

\* a pricer whose maturity decays along the path: T - t_grid[i]
option_prices_decaying(t_grid, S_grid, K, T, sigma, option_type, r) ==
    LET n == grid_length(t_grid)
    IN  IF option_type \in {"call", "put"}
        THEN [i \in 1..n |->
                 black_scholes_price(S_grid[i], K, T - time_value(t_grid[i]), sigma,
                                     option_type, r)]
        ELSE zeros(n)

\* X_grid after the branch on option_type: one price per point of t_grid
option_prices(t_grid, S_grid, K, T, sigma, option_type, r) ==
    LET n == grid_length(t_grid)
    IN  IF option_type = "call"
        THEN [i \in 1..n |-> black_scholes_price(S_grid[i], K, T, sigma, "call", r)]
        ELSE IF option_type = "put"
        THEN [i \in 1..n |-> black_scholes_price(S_grid[i], K, T, sigma, "put", r)]
        ELSE zeros(n)

\* the number of points the loops priced
points_priced(t_grid, option_type) ==
    IF option_type \in {"call", "put"} THEN grid_length(t_grid) ELSE 0

\* a pricer that writes into the caller's price grid
inputs_after_inplace(t_grid, S_grid, X_grid) ==
    [time_grid |-> t_grid, price_grid |-> [i \in 1..Len(S_grid) |-> Price(0, 0)]]

\* the caller's t_grid and S_grid objects after the call: never written
inputs_after(t_grid, S_grid, X_grid) == [time_grid |-> t_grid, price_grid |-> S_grid]

\* a pricer that checks its parameters before it prices a point
option_path_error_checked(S_grid, K, T, sigma) ==
    IF K <= 0 \/ T <= 0 \/ sigma <= 0
       \/ \E i \in 1..Len(S_grid) : ~IsPositive(S_grid[i])
    THEN "InvalidParameter" ELSE ""

\* the exception option_path raises for its parameters, "" when none: it checks nothing
option_path_error(S_grid, K, T, sigma) == ""

option_path(t_grid, S_grid, K, T, sigma, option_type, r) ==
    LET error  == option_path_error(S_grid, K, T, sigma)
        X_grid == option_prices(t_grid, S_grid, K, T, sigma, option_type, r)
    IN  IF error # "" THEN Raised(error, 0, 0)
        ELSE Returned(DataFrame(t_grid, X_grid), 0, points_priced(t_grid, option_type))

(***************************************************************************)
(* The calls a client of the module makes.  last is the call the client    *)
(* has just made, with its outcome; ref is an earlier call it has kept.    *)
(***************************************************************************)
NoCall == [fn |-> "none"]

StockArgs(Ts, Ns, X0s, Mus, Sigmas, Seeds) ==
    [T : Ts, n_steps : Ns, x0 : X0s, mu : Mus, sigma : Sigmas, random_state : Seeds]

\* every parameter in and out of its domain
AnyStockArgs ==
    StockArgs({-100, 0, 100}, -1..MaxSteps, {-1, 0, 10}, {1},
              {-10, 0, 80}, {None, 12, 55})

\* valid parameters, seeded or not
ValidStockArgs ==
    StockArgs({100, 200}, 1..MaxSteps, {10}, {1}, {50}, {None, 12, 55})

\* the sequences of length n over S
RECURSIVE SeqsOfLen(_, _)
SeqsOfLen(S, n) ==
    IF n = 0 THEN {<<>>}
    ELSE {Append(q, x) : q \in SeqsOfLen(S, n - 1), x \in S}

\* prices of an underlying path handed in by a client, valid or not
AnyPrices == {Price(-10, 0), Price(0, 0), Price(8, 0), Price(12, -5)}

\* underlying paths of up to MaxLen points on a time grid of equal length
AnyPaths ==
    UNION {{[t_grid |-> linspace(0, horizon, n), S_grid |-> S] :
                horizon \in {50, 100}, S \in SeqsOfLen(AnyPrices, n)} : n \in 0..MaxLen}

OptionArgs(Paths, Ks, Ts, Sigmas, Types, Rs) ==
    [path : Paths, K : Ks, T : Ts, sigma : Sigmas, option_type : Types, r : Rs]

AnyOptionArgs ==
    OptionArgs(AnyPaths, {0, 8, 10}, {-50, 0, 50}, {-10, 0, 20},
               {"call", "put", "straddle"}, {RISK_FREE, 5})

\* pricing calls made between two simulations
BetweenOptionArgs ==
    OptionArgs({[t_grid |-> linspace(0, 100, 2), S_grid |-> <<Price(10, 0), Price(12, -5)>>]},
               {10}, {50}, {20}, {"call", "put"}, {RISK_FREE})

ScalarArgs(S0s, Ks, Ts, Sigmas, Types, Rs) ==
    [S0 : S0s, K : Ks, T : Ts, sigma : Sigmas, option_type : Types, r : Rs]

AnyScalarArgs ==
    ScalarArgs(AnyPrices, {0, 8, 10}, {-50, 0, 50}, {-10, 0, 20},
               {"call", "put", "straddle"}, {RISK_FREE, 5})

ValidScalarArgs ==
    ScalarArgs({Price(8, 0), Price(12, -5), Price(10, 30)}, {8, 10},
               {50, 75}, {20, 50}, {"call", "put"}, {RISK_FREE, 5})

Init ==
    /\ last = NoCall
    /\ ref = NoCall
    /\ math_models = [RISK_FREE |-> RISK_FREE]
    /\ example_stock = [simulated |-> FALSE]
    /\ option_dict = <<>>
    /\ option_count = 0
    /\ df_model = <<>>
    /\ calls = <<>>
    /\ pc = [step |-> "STEP 1", i |-> 0]

\* a client calls stock_path(**a); os_entropy is what the system supplies
CallStockPath(a, os_entropy) ==
    /\ last.fn = "none"
    /\ last' = [fn |-> "stock_path", args |-> a,
                result |-> stock_path(a.T, a.n_steps, a.x0, a.mu, a.sigma,
                                      a.random_state, os_entropy)]
    /\ UNCHANGED <<ref, math_models, script>>

\* a client calls option_path(a.path.t_grid, a.path.S_grid, ...)
CallOptionPath(a) ==
    /\ last.fn = "none"
    /\ last' = [fn |-> "option_path", args |-> a,
                result |-> option_path(a.path.t_grid, a.path.S_grid, a.K, a.T,
                                       a.sigma, a.option_type, bound_r(a.r))]
    /\ UNCHANGED <<ref, math_models, script>>

\* a client calls black_scholes_price(**a)
CallBlackScholes(a) ==
    /\ last.fn = "none"
    /\ last' = [fn |-> "black_scholes_price", args |-> a,
                result |-> Returned(black_scholes_price(a.S0, a.K, a.T, a.sigma,
                                                        a.option_type, bound_r(a.r)),
                                    0, 0)]
    /\ UNCHANGED <<ref, math_models, script>>

\* the client is done with the outcome of its last call
Return ==
    /\ last.fn # "none"
    /\ last' = NoCall
    /\ UNCHANGED <<ref, math_models, script>>

\* the client keeps the outcome of its last call to compare a later one with
Keep ==
    /\ last.fn # "none"
    /\ ref = NoCall
    /\ ref' = last
    /\ last' = NoCall
    /\ UNCHANGED <<math_models, script>>

\* calls of the simulator, with any parameters
SimNext ==
    \/ \E a \in AnyStockArgs, os_entropy \in Entropy : CallStockPath(a, os_entropy)
    \/ Return

SimSpec == Init /\ [][SimNext]_vars

\* calls of the pricer, with any parameters
PriceNext ==
    \/ \E a \in AnyOptionArgs : CallOptionPath(a)
    \/ \E a \in AnyScalarArgs : CallBlackScholes(a)
    \/ Return

PriceSpec == Init /\ [][PriceNext]_vars

\* seeded and unseeded simulations, with pricing calls in between
SeedNext ==
    \/ \E a \in ValidStockArgs, os_entropy \in Entropy : CallStockPath(a, os_entropy)
    \/ \E a \in BetweenOptionArgs : CallOptionPath(a)
    \/ Return
    \/ Keep

SeedSpec == Init /\ [][SeedNext]_vars

\* scalar pricing calls on valid parameters
ParityNext ==
    \/ \E a \in ValidScalarArgs : CallBlackScholes(a)
    \/ Return
    \/ Keep

ParitySpec == Init /\ [][ParityNext]_vars

\* the rates a client sets RISK_FREE to, or passes as r
Rates == {0, RISK_FREE, 5}

\* pricing calls that pass r or leave it out
DefaultOptionArgs ==
    OptionArgs({[t_grid |-> linspace(0, 100, 2), S_grid |-> <<Price(10, 0), Price(12, -5)>>]},
               {8, 10}, {50, 75}, {20}, {"call", "put"}, {Omitted, 5})

DefaultScalarArgs ==
    ScalarArgs({Price(10, 0), Price(12, -5)}, {8, 10}, {50, 75}, {20},
               {"call", "put"}, {Omitted, 5})

\* a client assigns math_models.RISK_FREE = rate, between two calls
Reassign(rate) ==
    /\ last.fn = "none"
    /\ math_models.RISK_FREE # rate
    /\ math_models' = [math_models EXCEPT !.RISK_FREE = rate]
    /\ UNCHANGED <<last, ref, script>>

\* pricing calls with and without r, and reassignments of RISK_FREE
RateNext ==
    \/ \E rate \in Rates : Reassign(rate)
    \/ \E a \in DefaultOptionArgs : CallOptionPath(a)
    \/ \E a \in DefaultScalarArgs : CallBlackScholes(a)
    \/ Return

RateSpec == Init /\ [][RateNext]_vars

(***************************************************************************)
(* The script main.py: one simulation, then one pricing call per contract  *)
(* on the simulated series.                                                *)
(***************************************************************************)
\* the defaults of stock_path's parameters
stock_path_defaults == [T |-> 100, n_steps |-> 1000, x0 |-> 10, mu |-> 1, sigma |-> 50]

K_values == <<8, 10, 12>>

T_values == <<50, 75>>

sigma_values == <<20, 30, 50>>

option_types == <<"call", "put">>

\* the list of (K, T, sigma, option_type), K outermost, option_type innermost
param_space ==
    LET nT == Len(T_values)
        nS == Len(sigma_values)
        nO == Len(option_types)
    IN  [n \in 1..(Len(K_values) * nT * nS * nO) |->
            [K           |-> K_values[((n - 1) \div (nT * nS * nO)) + 1],
             T           |-> T_values[(((n - 1) \div (nS * nO)) % nT) + 1],
             sigma       |-> sigma_values[(((n - 1) \div nO) % nS) + 1],
             option_type |-> option_types[((n - 1) % nO) + 1]]]

\* Stock(t, X)
Stock(t, X) ==
    [simulated |-> TRUE, asset_type |-> "Stock", time_grid |-> t, price_grid |-> X]

\* CallOption(t, X, T, K, sigma) or PutOption(t, X, T, K, sigma)
OptionRecord(option_type, t, X, T, K, sigma) ==
    [asset_type |-> IF option_type = "call" THEN "Call Option" ELSE "Put Option",
     time_grid |-> t, price_grid |-> X,
     maturity |-> T, strike |-> K, volatility |-> sigma]

\* a call of stock_path or option_path, as the script makes it
Call(fn, args) == [fn |-> fn, args |-> args]

\* STEP 1: df_stock = stock_path(random_state=55), kept in a Stock; the model
\* runs it with n_steps steps in place of the default
Simulate(n_steps) ==
    /\ pc.step = "STEP 1"
    /\ LET d == stock_path_defaults
           df_stock == stock_path(d.T, n_steps, d.x0, d.mu, d.sigma, 55, 0).value
       IN  example_stock' = Stock(df_stock.time, df_stock.price)
    /\ calls' = Append(calls, Call("stock_path", [random_state |-> 55]))
    /\ pc' = [step |-> "STEP 2", i |-> 1]
    /\ UNCHANGED <<last, ref, math_models, option_dict, option_count, df_model>>

\* a dictionary that stores under every class but "call"
store_unless_call(dict, key, option_type, rec) ==
    IF option_type # "call"
    THEN [k \in DOMAIN dict \cup {key} |-> IF k = key THEN rec ELSE dict[k]]
    ELSE dict

\* option_dict[option_count] = CallOption(...) under 'if option_type == "call"',
\* = PutOption(...) under 'if option_type == "put"': dict after the two ifs
store(dict, key, option_type, rec) ==
    IF option_type = "call" \/ option_type = "put"
    THEN [k \in DOMAIN dict \cup {key} |-> IF k = key THEN rec ELSE dict[k]]
    ELSE dict

\* the body of the loop of STEP 2 for the contract c: count, price, store
LoopBody(c) ==
    /\ option_count' = option_count + 1
    /\ LET df_option == option_path(example_stock.time_grid, example_stock.price_grid,
                                    c.K, c.T, c.sigma, c.option_type,
                                    bound_r(Omitted)).value
           after == inputs_after(example_stock.time_grid, example_stock.price_grid,
                                 df_option.price)
       IN  /\ option_dict' = store(option_dict, option_count', c.option_type,
                                   OptionRecord(c.option_type, df_option.time,
                                                df_option.price, c.T, c.K, c.sigma))
           /\ example_stock' = Stock(after.time_grid, after.price_grid)
    /\ calls' = Append(calls,
                       Call("option_path",
                            [t_grid |-> example_stock.time_grid,
                             S_grid |-> example_stock.price_grid,
                             K |-> c.K, T |-> c.T, sigma |-> c.sigma,
                             option_type |-> c.option_type]))
    /\ UNCHANGED <<last, ref, math_models, df_model>>

\* one pass of the loop of STEP 2, for a contract c taken out of turn
PriceOption(c) ==
    /\ pc.step = "STEP 2"
    /\ option_count < MaxPriced
    /\ LoopBody(c)
    /\ UNCHANGED pc

\* STEP 2: the next pass of "for K, T, sigma, option_type in param_space"
ForEachOption ==
    /\ pc.step = "STEP 2"
    /\ pc.i <= Len(param_space)
    /\ LoopBody(param_space[pc.i])
    /\ pc' = [pc EXCEPT !.i = pc.i + 1]

\* a column of df_model: "time", "stock", or "option_<key>"
Column(name, key, values) == [name |-> name, key |-> key, values |-> values]

\* STEP 3, after the loop of STEP 2 has run out:
\* df_model = pd.DataFrame({"time": example_stock.time_grid})
NewFrame ==
    /\ pc.step = "STEP 2"
    /\ pc.i > Len(param_space)
    /\ df_model' = <<Column("time", 0, example_stock.time_grid)>>
    /\ pc' = [step |-> "STEP 3", i |-> 1]
    /\ UNCHANGED <<last, ref, math_models, example_stock, option_dict, option_count, calls>>

\* STEP 3: a pass of "for i in range(1, option_count + 1)"; option_dict[i]
\* raises KeyError when the key i was never stored
AddOptionColumn ==
    /\ pc.step = "STEP 3"
    /\ pc.i <= option_count
    /\ IF pc.i \in DOMAIN option_dict
       THEN /\ df_model' = Append(df_model,
                                   Column("option", pc.i, option_dict[pc.i].price_grid))
            /\ pc' = [pc EXCEPT !.i = pc.i + 1]
       ELSE /\ pc' = [step |-> "KeyError", i |-> pc.i]
            /\ UNCHANGED df_model
    /\ UNCHANGED <<last, ref, math_models, example_stock, option_dict, option_count, calls>>

\* STEP 3, after its loop: df_model["stock"] = example_stock.price_grid
AddStockColumn ==
    /\ pc.step = "STEP 3"
    /\ pc.i > option_count
    /\ df_model' = Append(df_model, Column("stock", 0, example_stock.price_grid))
    /\ pc' = [step |-> "dataset", i |-> 0]
    /\ UNCHANGED <<last, ref, math_models, example_stock, option_dict, option_count, calls>>

\* the contracts of param_space with the first volatility
FirstVolatility == {n \in DOMAIN param_space : param_space[n].sigma = sigma_values[1]}

\* the pricing calls of the script, made in any order
ShareNext ==
    \/ \E n_steps \in 1..MaxSteps : Simulate(n_steps)
    \/ \E n \in FirstVolatility : PriceOption(param_space[n])

ShareSpec == Init /\ [][ShareNext]_vars

\* the script main.py, from STEP 1 to the dataset of STEP 3
MainNext ==
    \/ \E n_steps \in 1..MaxSteps : Simulate(n_steps)
    \/ ForEachOption
    \/ NewFrame
    \/ AddOptionColumn
    \/ AddStockColumn

MainSpec == Init /\ [][MainNext]_vars

(***************************************************************************)
(* Properties of stock_path (checked under SimSpec).                       *)
(***************************************************************************)
IsStockCall == last.fn = "stock_path"

\* a parameter of the call lies outside the domain the specification states
OutOfDomain(a) == a.n_steps < 1 \/ a.T <= 0 \/ a.x0 <= 0 \/ a.sigma <= 0

\* C1 as stated: stock_path called with n_steps < 1, T <= 0, x0 <= 0 or
\* sigma <= 0 fails with InvalidParameter, before any random draw and without
\* returning a path.
C1_AsStated ==
    (IsStockCall /\ OutOfDomain(last.args))
        => /\ last.result.status = "raised"
           /\ last.result.error = "InvalidParameter"
           /\ last.result.draws = 0

\* C1 amended: stock_path checks no parameter and never raises InvalidParameter.
\* Only n_steps < 1 fails, before any random draw and without a path:
\* ZeroDivisionError for n_steps = 0, ValueError for n_steps < 0.  With
\* n_steps >= 1 a call with T <= 0, x0 <= 0 or sigma <= 0 raises nothing: the
\* n_steps draws are made and a path of n_steps + 1 entries is returned.
C1_NoValidation ==
    IsStockCall =>
        LET a == last.args
            res == last.result
        IN  /\ res.error # "InvalidParameter"
            /\ a.n_steps = 0 =>
                   res.status = "raised" /\ res.error = "ZeroDivisionError" /\ res.draws = 0
            /\ a.n_steps < 0 =>
                   res.status = "raised" /\ res.error = "ValueError" /\ res.draws = 0
            /\ a.n_steps >= 1 =>
                   /\ res.status = "returned"
                   /\ res.draws = a.n_steps
                   /\ Len(res.value.price) = a.n_steps + 1

\* C1 witness: a call with x0 <= 0, sigma <= 0 and T <= 0 that drew its
\* variates and returned a path
C1_Witness ==
    /\ IsStockCall
    /\ last.args.x0 <= 0 /\ last.args.sigma <= 0 /\ last.args.T <= 0
    /\ last.args.n_steps >= 2
    /\ last.result.status = "returned"
    /\ last.result.draws = last.args.n_steps

\* C4: for n_steps >= 1, T > 0 and x0 > 0, stock_path returns a time grid and a
\* price path of n_steps + 1 entries each; the grid starts at 0, ends at T, is
\* strictly increasing and equally spaced (by T / n_steps), and the path starts
\* at x0.
C4_GridAndPathShape ==
    (IsStockCall /\ last.args.n_steps >= 1 /\ last.args.T > 0 /\ last.args.x0 > 0) =>
        LET a == last.args
            t == last.result.value.time
            X == last.result.value.price
        IN  /\ last.result.status = "returned"
            /\ Len(t) = a.n_steps + 1
            /\ Len(X) = a.n_steps + 1
            /\ FracEq(t[1], Frac(0, 1))
            /\ FracEq(t[Len(t)], Frac(a.T, 1))
            /\ \A i \in 1..(Len(t) - 1) :
                   /\ FracLess(t[i], t[i + 1])
                   /\ FracEq(FracSub(t[i + 1], t[i]), Frac(a.T, a.n_steps))
            /\ X[1] = Price(a.x0, 0)

\* C4 witness: a valid call with the most steps returned its grid and path
C4_Witness ==
    /\ IsStockCall
    /\ last.args.n_steps = MaxSteps /\ last.args.T > 0 /\ last.args.x0 > 0
    /\ last.result.status = "returned"
    /\ Len(last.result.value.time) = MaxSteps + 1

IsOptionCall == last.fn = "option_path"

IsScalarCall == last.fn = "black_scholes_price"

KnownType(a) == a.option_type \in {"call", "put"}

\* C2 as stated: option_path and black_scholes_price called with an option
\* class that is neither "call" nor "put" fail with InvalidOptionType.
C2_AsStated ==
    ((IsOptionCall \/ IsScalarCall) /\ ~KnownType(last.args))
        => last.result.status = "raised" /\ last.result.error = "InvalidOptionType"

\* C2 amended: neither function raises for an option class that is neither
\* "call" nor "put": black_scholes_price returns None, and option_path prices
\* no point and returns a series over the input time grid, of the input's
\* length, whose every price is 0.0.
C2_UnknownTypeReturns ==
    /\ (IsScalarCall /\ ~KnownType(last.args))
           => last.result.status = "returned" /\ last.result.value = NoneValue
    /\ (IsScalarCall /\ KnownType(last.args) /\ last.args.K # 0)
           => last.result.status = "returned" /\ last.result.value # NoneValue
    /\ (IsOptionCall /\ ~KnownType(last.args))
           => /\ last.result.status = "returned"
              /\ last.result.computed = 0
              /\ last.result.value.time = last.args.path.t_grid
              /\ last.result.value.price = zeros(Len(last.args.path.t_grid))

\* C2 witness: option_path returned a series of zeros of two points for an
\* unknown option class
C2_Witness ==
    /\ IsOptionCall /\ ~KnownType(last.args)
    /\ Len(last.args.path.S_grid) = 2
    /\ last.result.status = "returned"
    /\ last.result.value.price = <<Fin(0), Fin(0)>>

\* a price of the path or a contract parameter is not positive
BadPricingInput(a) ==
    \/ a.K <= 0 \/ a.T <= 0 \/ a.sigma <= 0
    \/ \E i \in 1..Len(a.path.S_grid) : ~IsPositive(a.path.S_grid[i])

\* C3 as stated: option_path called with a price <= 0 anywhere in the path, or
\* with strike, maturity or volatility <= 0, fails with InvalidParameter before
\* any output point is computed.
C3_AsStated ==
    (IsOptionCall /\ BadPricingInput(last.args))
        => /\ last.result.status = "raised"
           /\ last.result.error = "InvalidParameter"
           /\ last.result.computed = 0

\* C3 amended: option_path checks no parameter and raises nothing for a price
\* <= 0 in the path or a strike, maturity or volatility <= 0: for a call or a
\* put it prices every point and returns a complete series of the input's
\* length, whose entries are what IEEE arithmetic gives (NaN at a negative
\* price for a positive strike, NaN everywhere for a negative maturity).
C3_NoValidation ==
    (IsOptionCall /\ KnownType(last.args) /\ BadPricingInput(last.args)) =>
        LET a == last.args
            X == last.result.value.price
        IN  /\ last.result.status = "returned"
            /\ last.result.computed = Len(a.path.S_grid)
            /\ Len(X) = Len(a.path.S_grid)
            /\ \A i \in 1..Len(X) :
                   /\ X[i].k \in {"fin", "nan"}
                   /\ (a.path.S_grid[i].m < 0 /\ a.K > 0) => X[i].k = "nan"
                   /\ a.T < 0 => X[i].k = "nan"

\* C3 witness: a put whose path holds a price <= 0 at its second point only was
\* priced at both points
C3_Witness ==
    /\ IsOptionCall /\ last.args.option_type = "put"
    /\ last.args.K > 0 /\ last.args.T > 0 /\ last.args.sigma > 0
    /\ Len(last.args.path.S_grid) = 2
    /\ IsPositive(last.args.path.S_grid[1])
    /\ last.args.path.S_grid[2].m < 0
    /\ last.result.status = "returned"
    /\ last.result.value.price[1].k = "fin"
    /\ last.result.value.price[2].k = "nan"

\* C5: for a call or a put and any underlying path, option_path returns a
\* series with as many entries as the input path, whose time column is the
\* input time grid, entry for entry: output point i pairs input time i with
\* the price of input price i.
C5_SameLengthSameGrid ==
    (IsOptionCall /\ KnownType(last.args)) =>
        LET a == last.args
            df == last.result.value
        IN  /\ last.result.status = "returned"
            /\ Len(df.price) = Len(a.path.S_grid)
            /\ Len(df.time) = Len(a.path.t_grid)
            /\ \A i \in 1..Len(a.path.t_grid) :
                   /\ df.time[i] = a.path.t_grid[i]
                   /\ df.price[i] = black_scholes_price(a.path.S_grid[i], a.K, a.T,
                                                        a.sigma, a.option_type, a.r)

\* C5 witness: a call on a valid path of the greatest length returned as many
\* finite prices
C5_Witness ==
    /\ IsOptionCall /\ last.args.option_type = "call"
    /\ ~BadPricingInput(last.args)
    /\ Len(last.args.path.S_grid) = MaxLen
    /\ last.result.status = "returned"
    /\ Len(last.result.value.price) = MaxLen
    /\ \A i \in 1..MaxLen : last.result.value.price[i].k = "fin"

\* C8: output entry i of option_path is black_scholes_price(S[i], K, T, sigma,
\* option_type, r), with the contract's T and r at every point: it depends
\* neither on t[i] nor on i nor on another entry, and two positions that hold
\* the same underlying price get the same option price.
C8_FixedMaturity ==
    (IsOptionCall /\ KnownType(last.args)) =>
        LET a == last.args
            X == last.result.value.price
        IN  /\ \A i \in 1..Len(a.path.S_grid) :
                   X[i] = black_scholes_price(a.path.S_grid[i], a.K, a.T, a.sigma,
                                              a.option_type, a.r)
            /\ \A i, j \in 1..Len(a.path.S_grid) :
                   a.path.S_grid[i] = a.path.S_grid[j] => X[i] = X[j]

\* C8 witness: a valid contract priced on a path that holds the same price at
\* two different times
C8_Witness ==
    /\ IsOptionCall /\ KnownType(last.args) /\ ~BadPricingInput(last.args)
    /\ Len(last.args.path.S_grid) = 2
    /\ last.args.path.S_grid[1] = last.args.path.S_grid[2]
    /\ ~FracEq(last.args.path.t_grid[1], last.args.path.t_grid[2])
    /\ last.result.value.price[1] = last.result.value.price[2]
    /\ last.result.value.price[1].v > 0

(***************************************************************************)
(* Determinism under a seed (under SeedSpec).                              *)
(***************************************************************************)
\* C7: two calls of stock_path with the same (T, n_steps, x0, mu, sigma,
\* random_state) and a seed that is not None return the same time grid and the
\* same price path, whatever calls of stock_path or option_path were made in
\* between.
C7_SeedDeterminism ==
    (IsStockCall /\ ref.fn = "stock_path" /\ ref.args = last.args
        /\ last.args.random_state # None)
        => /\ last.result.status = ref.result.status
           /\ last.result.value.time = ref.result.value.time
           /\ last.result.value.price = ref.result.value.price

\* C7 witness: a seeded simulation of several steps was kept and the same call
\* made again later
C7_Witness ==
    /\ IsStockCall /\ ref.fn = "stock_path" /\ ref.args = last.args
    /\ last.args.random_state = 55 /\ last.args.n_steps >= 2
    /\ last.result.status = "returned"
    /\ last.result.value = ref.result.value

(***************************************************************************)
(* Put-call parity (under ParitySpec).                                     *)
(***************************************************************************)
\* the kept call and the last call price the same S, K, T, sigma and r
SameContract(a, b) ==
    a.S0 = b.S0 /\ a.K = b.K /\ a.T = b.T /\ a.sigma = b.sigma /\ a.r = b.r

\* C9: for valid S, K, T, sigma and r, the call price minus the put price is
\* S - K * exp(-r * T) (here in 1/(ExpScale*CdfScale)), and Phi(d) + Phi(-d) = 1
\* at the d1 and d2 both branches use.
C9_PutCallParity ==
    (IsScalarCall /\ ref.fn = "black_scholes_price" /\ SameContract(ref.args, last.args)
        /\ ref.args.option_type = "call" /\ last.args.option_type = "put") =>
        LET a  == last.args
            d1 == d1_of(a.S0, a.K, a.T, a.sigma, a.r)
            d2 == d2_of(d1, a.T, a.sigma)
        IN  /\ ref.result.value.k = "fin" /\ last.result.value.k = "fin"
            /\ ref.result.value.v - last.result.value.v
                   = CdfScale * (price_value(a.S0)
                                 - a.K * exp_value(((-a.r) * a.T) \div Scale))
            /\ cdf(d1).v + cdf(fx_neg(d1)).v = CdfScale
            /\ cdf(d2).v + cdf(fx_neg(d2)).v = CdfScale

\* C9 witness: a call and then a put were priced on the same contract, both
\* worth something
C9_Witness ==
    /\ IsScalarCall /\ ref.fn = "black_scholes_price"
    /\ SameContract(ref.args, last.args)
    /\ ref.args.option_type = "call" /\ last.args.option_type = "put"
    /\ ref.result.value.v > 0 /\ last.result.value.v > 0
    /\ ref.result.value.v # last.result.value.v

(***************************************************************************)
(* No side effects of option_path (under ShareSpec).                       *)
(***************************************************************************)
\* the class of a stored option record
TypeOf(rec) == IF rec.asset_type = "Call Option" THEN "call" ELSE "put"

\* a pricing call leaves the underlying series as it was
UnderlyingKept == example_stock.simulated => example_stock' = example_stock

\* every stored record is the pricing of its contract on the underlying series
PricedOnUnderlying ==
    \A n \in DOMAIN option_dict :
        LET rec == option_dict[n]
        IN  /\ rec.time_grid = example_stock.time_grid
            /\ rec.price_grid =
                   option_prices(example_stock.time_grid, example_stock.price_grid,
                                 rec.strike, rec.maturity, rec.volatility,
                                 TypeOf(rec), RISK_FREE)

\* C10: a call of option_path leaves its input time grid and price grid
\* unchanged, so every contract priced off the same underlying series gets the
\* same output series in every order in which the pricing calls are made.
C10_NoSideEffects == [][UnderlyingKept]_vars /\ []PricedOnUnderlying

\* C10 witness: two different contracts were priced in the order opposite to
\* the script's, each with its own series
C10_Witness ==
    /\ option_count = 2
    /\ option_dict[1].asset_type = "Put Option" /\ option_dict[1].strike = 12
    /\ option_dict[2].asset_type = "Call Option" /\ option_dict[2].strike = 8
    /\ Len(option_dict[1].price_grid) >= 3
    /\ option_dict[1].price_grid # option_dict[2].price_grid

(***************************************************************************)
(* The control flow of main.py (under MainSpec).                           *)
(***************************************************************************)
\* the combination of parameters a pricing call was made with
Combination(args) ==
    [K |-> args.K, T |-> args.T, sigma |-> args.sigma, option_type |-> args.option_type]

\* the elements of a sequence
Range(q) == {q[n] : n \in DOMAIN q}

\* every (strike, maturity, volatility, option class)
Combinations ==
    [K : Range(K_values), T : Range(T_values), sigma : Range(sigma_values),
     option_type : Range(option_types)]

\* the combinations option_path has been called with so far
Priced(c) == {n \in DOMAIN calls : calls[n].fn = "option_path"
                                   /\ Combination(calls[n].args) = c}

\* the simulator ran once, first
SimulatedOnceFirst ==
    /\ pc.step # "STEP 1" => Len(calls) >= 1
    /\ \A n \in DOMAIN calls : calls[n].fn = "stock_path" <=> n = 1

\* every pricing call so far was made on the underlying series, for a
\* combination of its own, and stored its record under its own key
PricedOncePerCombination ==
    /\ Len(calls) = (IF pc.step = "STEP 1" THEN 0 ELSE 1) + option_count
    /\ \A c \in Combinations : Cardinality(Priced(c)) <= 1
    /\ \A n \in DOMAIN calls :
           calls[n].fn = "option_path" =>
               /\ Combination(calls[n].args) \in Combinations
               /\ calls[n].args.t_grid = example_stock.time_grid
               /\ calls[n].args.S_grid = example_stock.price_grid
    /\ DOMAIN option_dict = 1..option_count
    /\ \A k \in DOMAIN option_dict :
           LET rec  == option_dict[k]
               args == calls[k + 1].args
           IN  /\ [K |-> rec.strike, T |-> rec.maturity, sigma |-> rec.volatility,
                   option_type |-> TypeOf(rec)] = Combination(args)
               /\ rec.time_grid = example_stock.time_grid
               /\ rec.price_grid =
                      option_prices(args.t_grid, args.S_grid, args.K, args.T,
                                    args.sigma, args.option_type, RISK_FREE)

\* after the loop every combination has been priced and stored
AllPricedAfterLoop ==
    pc.step \in {"STEP 3", "dataset"} =>
        /\ option_count = Cardinality(Combinations)
        /\ \A c \in Combinations : Cardinality(Priced(c)) = 1
        /\ DOMAIN option_dict = 1..Cardinality(Combinations)

\* the dataset: time, one column per option key, stock, all on the time axis
DatasetComplete ==
    /\ pc.step # "KeyError"
    /\ pc.step = "dataset" =>
           /\ Len(df_model) = option_count + 2
           /\ df_model[1] = Column("time", 0, example_stock.time_grid)
           /\ \A k \in 1..option_count :
                  /\ df_model[k + 1] = Column("option", k, option_dict[k].price_grid)
                  /\ Len(df_model[k + 1].values) = Len(df_model[1].values)
           /\ df_model[option_count + 2] = Column("stock", 0, example_stock.price_grid)

\* C11: in main.py the simulator runs exactly once and before any pricing
\* call; option_path is then called exactly once for each (strike, maturity,
\* volatility, option class) of the parameter space, always on the same
\* underlying series, and each call stores one record under its own key, so
\* that after the loop the keys 1..option_count are all present and the
\* dataset has one option column per combination on the shared time axis.
C11_OnceThenOncePerCombination ==
    /\ SimulatedOnceFirst
    /\ PricedOncePerCombination
    /\ AllPricedAfterLoop
    /\ DatasetComplete

\* C11 witness: the script has built its dataset: time, 36 option columns of
\* puts and calls, stock, on a grid of several points
C11_Witness ==
    /\ pc.step = "dataset"
    /\ Len(calls) = 37
    /\ Len(df_model) = 38
    /\ Len(example_stock.time_grid) >= 3
    /\ option_dict[1].asset_type = "Call Option"
    /\ option_dict[36].asset_type = "Put Option"
    /\ df_model[2].values # df_model[37].values

(***************************************************************************)
(* The default rate (under RateSpec).                                      *)
(***************************************************************************)
\* the outcome of the call in last, had it priced with the rate r
OutcomeWith(r) ==
    LET a == last.args
    IN  IF IsOptionCall
        THEN option_path(a.path.t_grid, a.path.S_grid, a.K, a.T, a.sigma,
                         a.option_type, r)
        ELSE Returned(black_scholes_price(a.S0, a.K, a.T, a.sigma, a.option_type, r),
                      0, 0)

\* C12: a call of option_path or black_scholes_price that leaves r out prices
\* with the value the module attribute RISK_FREE holds at the moment of the
\* call (0.02 when it was never reassigned), whatever calls and reassignments
\* came before, and the two functions use the same rate.
C12_AsStated ==
    ((IsOptionCall \/ IsScalarCall) /\ last.args.r = Omitted) =>
        last.result = OutcomeWith(math_models.RISK_FREE)

====
